---------------------------- MODULE Spec2Model ----------------------------
(***************************************************************************)
(* getConcertInfo.py: concert calendar scraper with a two-pane curses      *)
(* viewer.  Python strings are modelled as sequences of one-character      *)
(* strings, Python lists as sequences (1-based here, 0-based in the        *)
(* source), dictionaries as functions.                                     *)
(***************************************************************************)
EXTENDS Integers, Sequences, FiniteSets, TLC

VARIABLES
    site_data,  \* concertList: the lines read from the page (line 59)
    concerts,   \* main: the catalog returned by concertList (line 177)
    artists,    \* main: sorted artist names (line 195)
    offset,     \* main: selected index, 0-based as in the source (line 196)
    c,          \* main: last key read by getch (line 204)
    pc,         \* main: "start", "render", "getch", "quit" or "raised"
    err,        \* the exception that ended main: [type, line], NoError when none
    MAX_Y,      \* main: terminal height from getmaxyx (line 182)
    list_win,   \* what populateListWin last wrote: set of [y, x, text, attr]
    info_win,   \* what populateInfoWin last wrote: set of [y, x, text, attr]
    arg,        \* argument of a direct call of trimName / getMonth
    ret         \* its return value

vars == <<site_data, concerts, artists, offset, c, pc, err, MAX_Y,
          list_win, info_win, arg, ret>>

(***************************************************************************)
(* Bounds of the model.                                                    *)
(***************************************************************************)
MaxLines == 2       \* pages: every sequence of pool lines up to this length
MaxY == 15          \* terminal heights MinY..MaxY
MaxNameLen == 4     \* trimName: names up to this length
MaxTrim == 5        \* trimName: lengths -2..MaxTrim
MaxDigits == 2      \* getMonth: digit strings up to this length

(***************************************************************************)
(* Python built-ins used by the program.                                   *)
(***************************************************************************)
\* printable ASCII in code point order: 32..95 and 97..126 (the grave
\* accent, 96, is left out)
AsciiLow ==
    <<" ", "!", "\"", "#", "$", "%", "&", "'", "(", ")", "*", "+", ",",
      "-", ".", "/", "0", "1", "2", "3", "4", "5", "6", "7", "8", "9", ":",
      ";", "<", "=", ">", "?", "@", "A", "B", "C", "D", "E", "F", "G", "H",
      "I", "J", "K", "L", "M", "N", "O", "P", "Q", "R", "S", "T", "U", "V",
      "W", "X", "Y", "Z", "[", "\\", "]", "^", "_">>

AsciiHigh ==
    <<"a", "b", "c", "d", "e", "f", "g", "h", "i", "j", "k", "l", "m",
      "n", "o", "p", "q", "r", "s", "t", "u", "v", "w", "x", "y", "z", "{",
      "|", "}", "~">>

Chars == {AsciiLow[i] : i \in 1..Len(AsciiLow)}
             \cup {AsciiHigh[i] : i \in 1..Len(AsciiHigh)}

\* ord(ch)
Ord(ch) ==
    IF \E i \in 1..Len(AsciiLow) : AsciiLow[i] = ch
    THEN 31 + CHOOSE i \in 1..Len(AsciiLow) : AsciiLow[i] = ch
    ELSE 96 + CHOOSE i \in 1..Len(AsciiHigh) : AsciiHigh[i] = ch

Digits == {"0", "1", "2", "3", "4", "5", "6", "7", "8", "9"}

Letters == {ch \in Chars : \/ (Ord(ch) >= 65 /\ Ord(ch) <= 90)
                           \/ (Ord(ch) >= 97 /\ Ord(ch) <= 122)}

Min(a, b) == IF a < b THEN a ELSE b

Max(a, b) == IF a > b THEN a ELSE b

\* s[:k] for any integer k (a negative k counts from the end)
SliceTo(s, k) ==
    IF k >= 0 THEN SubSeq(s, 1, Min(k, Len(s)))
    ELSE SubSeq(s, 1, Max(Len(s) + k, 0))

\* whether lst[i] raises IndexError, i 0-based, negative i from the end
IndexError(lst, i) == i >= Len(lst) \/ i < 0 - Len(lst)

\* lst[i], i 0-based, negative i from the end
PyIndex(lst, i) == IF i >= 0 THEN lst[i + 1] ELSE lst[Len(lst) + i + 1]

\* str < str: lexicographic by code point, a proper prefix is smaller
RECURSIVE StrLess(_, _)
StrLess(s, t) ==
    IF t = <<>> THEN FALSE
    ELSE IF s = <<>> THEN TRUE
    ELSE IF Head(s) # Head(t) THEN Ord(Head(s)) < Ord(Head(t))
    ELSE StrLess(Tail(s), Tail(t))

\* sorted(iterable) of distinct strings
RECURSIVE Sorted(_)
Sorted(S) ==
    IF S = {} THEN <<>>
    ELSE LET m == CHOOSE x \in S : \A y \in S \ {x} : StrLess(x, y)
         IN  <<m>> \o Sorted(S \ {m})

\* whether sub occurs in s (the in operator on strings)
Contains(s, sub) ==
    \E p \in 1..(Len(s) - Len(sub) + 1) : SubSeq(s, p, p + Len(sub) - 1) = sub

\* str.split(sep) for a one-character sep
RECURSIVE Split(_, _)
Split(s, sep) ==
    IF \A i \in 1..Len(s) : s[i] # sep THEN <<s>>
    ELSE LET p == CHOOSE i \in 1..Len(s) :
                      s[i] = sep /\ \A j \in 1..(i - 1) : s[j] # sep
         IN  <<SubSeq(s, 1, p - 1)>> \o Split(SubSeq(s, p + 1, Len(s)), sep)

\* int(s) raises ValueError unless s is a non-empty digit string (the date
\* token holds digits and dashes only, and is split on the dashes)
ValueError(s) == s = <<>> \/ \E i \in 1..Len(s) : s[i] \notin Digits

RECURSIVE IntOf(_)
IntOf(s) ==
    IF s = <<>> THEN 0
    ELSE 10 * IntOf(SubSeq(s, 1, Len(s) - 1)) + (Ord(s[Len(s)]) - 48)

(***************************************************************************)
(* re.search for the five patterns of concertList.  A match is             *)
(* [found, group]; re.search returns the leftmost match, and the           *)
(* quantifiers are greedy.                                                 *)
(***************************************************************************)
NoMatch == [found |-> FALSE, group |-> <<>>]

\* an exception: its type and the source line that raised it
Raised(type, line) == [type |-> type, line |-> line]

NoError == Raised("", 0)

\* whether the lookbehind (?<=lb) holds at position p (1-based)
Behind(l, p, lb) == p > Len(lb) /\ SubSeq(l, p - Len(lb), p - 1) = lb

\* length of the longest run of characters of class cls starting at p
RunLen(l, p, cls) ==
    LET stop == {q \in p..Len(l) : l[q] \notin cls}
    IN  IF stop = {} THEN Len(l) - p + 1
        ELSE (CHOOSE q \in stop : \A r \in stop : q <= r) - p

\* leftmost p of ps
Leftmost(ps) == CHOOSE p \in ps : \A q \in ps : p <= q

\* (?<=lb)[cls]{lo,} with optional lookahead (?=<): greedy run of at least
\* lo characters; with the lookahead the character after the match must be
\* "<", which for the class [^<] only the longest run can satisfy
SearchRun(l, lb, cls, lo, ahead) ==
    LET ps == {p \in 1..(Len(l) + 1) :
                  /\ Behind(l, p, lb)
                  /\ RunLen(l, p, cls) >= lo
                  /\ ahead => (p + RunLen(l, p, cls) <= Len(l)
                               /\ l[p + RunLen(l, p, cls)] = "<")}
        at == Leftmost(ps)
    IN  IF ps = {} THEN NoMatch
        ELSE [found |-> TRUE,
              group |-> SubSeq(l, at, at + RunLen(l, at, cls) - 1)]

\* (?<=lb)[cls]{k} with optional lookahead (?=<): exactly k characters
SearchFixed(l, lb, cls, k, ahead) ==
    LET ps == {p \in 1..(Len(l) + 1) :
                  /\ Behind(l, p, lb)
                  /\ RunLen(l, p, cls) >= k
                  /\ ahead => (p + k <= Len(l) /\ l[p + k] = "<")}
        at == Leftmost(ps)
    IN  IF ps = {} THEN NoMatch
        ELSE [found |-> TRUE, group |-> SubSeq(l, at, at + k - 1)]

NotLt == Chars \ {"<"}

\* artist_re (line 65): lookbehind <b>, then [^<]+, then lookahead <
artist_re(l) == SearchRun(l, <<"<", "b", ">">>, NotLt, 1, TRUE)

\* day_re (line 66): lookbehind -1 dquote >, then [a-zA-Z]{3}, lookahead <
day_re(l) == SearchFixed(l, <<"-", "1", "\"", ">">>, Letters, 3, TRUE)

\* date_re (line 67): lookbehind 0 dquote >, then [0-9-]{10}
date_re(l) == SearchFixed(l, <<"0", "\"", ">">>, Digits \cup {"-"}, 10, FALSE)

\* venue_re (line 68): lookbehind 2 dquote >, then [^<]*
venue_re(l) == SearchRun(l, <<"2", "\"", ">">>, NotLt, 0, FALSE)

\* cost_re (line 69): lookbehind 3 dquote >, then [^<]*
cost_re(l) == SearchRun(l, <<"3", "\"", ">">>, NotLt, 0, FALSE)

(***************************************************************************)
(* getMonth, formatConcert, concertList, trimName.                         *)
(***************************************************************************)
months ==
    <<<<"J", "a", "n", "u", "a", "r", "y">>,
      <<"F", "e", "b", "r", "u", "a", "r", "y">>,
      <<"M", "a", "r", "c", "h">>,
      <<"A", "p", "r", "i", "l">>,
      <<"M", "a", "y">>,
      <<"J", "u", "n", "e">>,
      <<"J", "u", "l", "y">>,
      <<"A", "u", "g", "u", "s", "t">>,
      <<"S", "e", "p", "t", "e", "m", "b", "e", "r">>,
      <<"O", "c", "t", "o", "b", "e", "r">>,
      <<"N", "o", "v", "e", "m", "b", "e", "r">>,
      <<"D", "e", "c", "e", "m", "b", "e", "r">>>>

\* MonthIndex without the shift to a 0-based index
MonthIndexUnshifted(n) == IntOf(n) % 12

\* the 0-based index getMonth computes: (int(n) - 1) % 12
MonthIndex(n) == (IntOf(n) - 1) % 12

\* getMonth(n), for n on which int(n) does not raise
getMonth(n) == months[MonthIndex(n) + 1]

\* formatConcert raises IndexError when the date has fewer than 3 parts
formatConcertRaises(date) == IndexError(Split(date, "-"), 2)

\* formatConcert: m, d, y = 0, 1, 2 index the split date
formatConcert(day, date, venue, cost) ==
    LET parts == Split(date, "-")
    IN  [venue |-> venue, year |-> PyIndex(parts, 2),
         month |-> PyIndex(parts, 0), date |-> PyIndex(parts, 1),
         day |-> day, cost |-> cost]

artist_tag == <<"<", "t", "d", " ">>

\* AddConcert that keeps only the latest concert of an artist
AddConcertReplace(dict, name, concert) ==
    IF name \notin DOMAIN dict THEN (name :> <<concert>>) @@ dict
    ELSE [dict EXCEPT ![name] = <<concert>>]

\* AddConcert that inserts at the front
AddConcertPrepend(dict, name, concert) ==
    IF name \notin DOMAIN dict THEN (name :> <<concert>>) @@ dict
    ELSE [dict EXCEPT ![name] = <<concert>> \o @]

\* lines 80-83: a new key gets a one-element list, a known key is appended to
AddConcert(dict, name, concert) ==
    IF name \notin DOMAIN dict THEN (name :> <<concert>>) @@ dict
    ELSE [dict EXCEPT ![name] = Append(@, concert)]

\* lines 75-78: the first of the four searches that fails (.group() on None
\* raises AttributeError there), 0 when all four match
GroupFails(day, date, venue, cost) ==
    IF ~day.found THEN 75
    ELSE IF ~date.found THEN 76
    ELSE IF ~venue.found THEN 77
    ELSE IF ~cost.found THEN 78
    ELSE 0

\* the loop of lines 71-83 over the remaining lines ls, dict built so far
RECURSIVE ParseLines(_, _)
ParseLines(ls, dict) ==
    IF ls = <<>> THEN [err |-> NoError, artists |-> dict]
    ELSE LET l == Head(ls)
             art == artist_re(l)
             day == day_re(l)
             date == date_re(l)
             venue == venue_re(l)
             cost == cost_re(l)
             fails == GroupFails(day, date, venue, cost)
         IN  IF ~art.found THEN ParseLines(Tail(ls), dict)
             ELSE IF fails # 0
                  THEN [err |-> Raised("AttributeError", fails),
                        artists |-> dict]
             ELSE IF formatConcertRaises(date.group)
                  THEN [err |-> Raised("IndexError", 37), artists |-> dict]
             ELSE ParseLines(Tail(ls),
                             AddConcert(dict, art.group,
                                        formatConcert(day.group, date.group,
                                                      venue.group,
                                                      cost.group)))

\* concertList on the lines of the page: [err, artists]
concertList(page) ==
    ParseLines(SelectSeq(page, LAMBDA l : Contains(l, artist_tag)), <<>>)

Ellipsis == <<".", ".", ".">>

\* trimName that also trims a name of exactly the given length
trimNameGe(name, length) ==
    IF Len(name) >= length THEN SliceTo(name, length) \o Ellipsis ELSE name

trimName(name, length) ==
    IF Len(name) > length THEN SliceTo(name, length) \o Ellipsis ELSE name

(***************************************************************************)
(* populateListWin and populateInfoWin.  A window is modelled by the set   *)
(* of addstr calls [y, x, text, attr] of its last complete redraw (each    *)
(* redraw starts with win.clear()).                                        *)
(***************************************************************************)
MAX_X == 80         \* terminal width from getmaxyx, fixed at 80 columns
MARGIN == 2         \* main: MARGIN
LIST_MARGIN == 1    \* populateListWin: MARGIN
SHIFT == 4          \* populateListWin: SHIFT
INFO_MARGIN == 4    \* populateInfoWin: MARGIN

SUB_Y == MAX_Y - (2 * MARGIN)

SUB_X == (MAX_X \div 2) - (2 * MARGIN)

\* the smallest terminal on which the subwindows have a line (SUB_Y >= 1)
MinY == (2 * MARGIN) + 1

\* LIST_WIN.getmaxyx()[0] is the height the subwindow was created with
LIST_MID == SUB_Y \div 2

\* names[offset] on line 123 raises IndexError for an index out of range
populateListWinRaises(names, off) == IndexError(names, off)

\* the addstr calls of populateListWin; width is the parameter as passed
populateListWin(names, off, MID_Y, width) ==
    LET w == width - 7
        rows == 1..(MID_Y - LIST_MARGIN - 1)
    IN  {[y |-> MID_Y, x |-> LIST_MARGIN + SHIFT,
          text |-> trimName(PyIndex(names, off), w - SHIFT),
          attr |-> "A_STANDOUT"]}
        \cup {[y |-> MID_Y - row, x |-> LIST_MARGIN,
               text |-> trimName(PyIndex(names, off - row), w),
               attr |-> "A_NORMAL"] : row \in {r \in rows : off - r >= 0}}
        \cup {[y |-> MID_Y + row, x |-> LIST_MARGIN,
               text |-> trimName(PyIndex(names, off + row), w),
               attr |-> "A_NORMAL"] :
                  row \in {r \in rows : off + r < Len(names)}}

\* the date line of a concert (lines 153-156)
DayLine(cn) ==
    cn.day \o <<" ">> \o cn.date \o <<" ">> \o getMonth(cn.month)
           \o <<" ">> \o cn.year

\* the steps of populateInfoWin in program order: the heading (line 150),
\* then per concert getMonth (line 155, no addstr) and three addstr calls
\* (lines 157-159); each step is [line, y, x, attr, k], k the concert
InfoSteps(cs) ==
    LET perConcert(k) ==
            LET row == INFO_MARGIN + 4 * (k - 1)
            IN  <<[line |-> 155, y |-> row, x |-> 0, attr |-> "", k |-> k],
                  [line |-> 157, y |-> row, x |-> INFO_MARGIN,
                   attr |-> "A_BOLD", k |-> k],
                  [line |-> 158, y |-> row + 1, x |-> INFO_MARGIN * 2,
                   attr |-> "A_NORMAL", k |-> k],
                  [line |-> 159, y |-> row + 2, x |-> INFO_MARGIN * 2,
                   attr |-> "A_NORMAL", k |-> k]>>
        steps[k \in 0..Len(cs)] ==
            IF k = 0
            THEN <<[line |-> 150, y |-> INFO_MARGIN \div 2,
                    x |-> INFO_MARGIN \div 2, attr |-> "A_UNDERLINE",
                    k |-> 0]>>
            ELSE steps[k - 1] \o perConcert(k)
    IN  steps[Len(cs)]

\* the exception a step raises in a window of height rows, NoError when
\* none: int() of the month raises ValueError, addstr at a row past the
\* last one raises curses.error
StepRaises(cs, st, height) ==
    IF st.line = 155
    THEN IF ValueError(cs[st.k].month) THEN Raised("ValueError", 155)
         ELSE NoError
    ELSE IF st.y >= height THEN Raised("curses.error", st.line)
         ELSE NoError

\* the number of steps populateInfoWin completes before one raises
InfoDone(cs, height) ==
    LET steps == InfoSteps(cs)
        bad == {i \in 1..Len(steps) : StepRaises(cs, steps[i], height) # NoError}
    IN  IF bad = {} THEN Len(steps)
        ELSE (CHOOSE i \in bad : \A j \in bad : i <= j) - 1

\* the exception populateInfoWin raises, NoError when none
populateInfoWinRaises(cs, height) ==
    IF InfoDone(cs, height) = Len(InfoSteps(cs)) THEN NoError
    ELSE StepRaises(cs, InfoSteps(cs)[InfoDone(cs, height) + 1], height)

\* the text a step writes
StepText(cs, name, st) ==
    IF st.line = 150 THEN name
    ELSE IF st.line = 157 THEN cs[st.k].venue
    ELSE IF st.line = 158 THEN DayLine(cs[st.k])
    ELSE cs[st.k].cost

\* the addstr calls populateInfoWin makes, up to the one that raises
populateInfoWin(cs, name, height) ==
    {[y |-> InfoSteps(cs)[i].y, x |-> InfoSteps(cs)[i].x,
      text |-> StepText(cs, name, InfoSteps(cs)[i]),
      attr |-> InfoSteps(cs)[i].attr] :
        i \in {j \in 1..InfoDone(cs, height) : InfoSteps(cs)[j].line # 155}}

(***************************************************************************)
(* main: the event loop.                                                   *)
(***************************************************************************)
\* what getch can return: the two arrow keys, the letters the loop tests,
\* and one key it does not ("x")
Keys == {"KEY_UP", "KEY_DOWN", "k", "j", "K", "J", "q", "Q", "x"}

QuitKeys == {"q", "Q"}

\* Navigate that wraps around from the last artist to the first
NavigateWrap(key, off, n, page) ==
    IF key \in {"KEY_UP", "k"} /\ off > 0 THEN off - 1
    ELSE IF key \in {"KEY_DOWN", "j"} /\ off < n THEN (off + 1) % n
    ELSE IF key = "K" /\ off > 0 THEN off - page
    ELSE IF key = "J" /\ off < n THEN off + page
    ELSE off

\* Navigate whose single step up stops one short of the top
NavigateUpShort(key, off, n, page) ==
    IF key \in {"KEY_UP", "k"} /\ off > 1 THEN off - 1
    ELSE IF key \in {"KEY_DOWN", "j"} /\ off < n THEN off + 1
    ELSE IF key = "K" /\ off > 0 THEN off - page
    ELSE IF key = "J" /\ off < n THEN off + page
    ELSE off

\* lines 207-214: the elif chain, n = len(artists), page = SUB_Y - 2*MARGIN
Navigate(key, off, n, page) ==
    IF key \in {"KEY_UP", "k"} /\ off > 0 THEN off - 1
    ELSE IF key \in {"KEY_DOWN", "j"} /\ off < n THEN off + 1
    ELSE IF key = "K" /\ off > 0 THEN off - page
    ELSE IF key = "J" /\ off < n THEN off + page
    ELSE off

\* SafetyReset without the reset at the upper end
SafetyResetNoUpper(off, n) == IF off < 0 THEN 0 ELSE off

\* lines 216-219: safety resets for the offset
SafetyReset(off, n) ==
    LET a == IF off > n - 1 THEN n - 1 ELSE off
    IN  IF a < 0 THEN 0 ELSE a

\* lines 177-196: load the concert data, set up the windows, sort the names
Load ==
    /\ pc = "start"
    /\ LET r == concertList(site_data)
       IN  IF r.err # NoError
           THEN /\ pc' = "raised"
                /\ err' = r.err
                /\ UNCHANGED <<concerts, artists, offset>>
           ELSE /\ concerts' = r.artists
                /\ artists' = Sorted(DOMAIN r.artists)
                /\ offset' = 0
                /\ pc' = "render"
                /\ UNCHANGED err
    /\ UNCHANGED <<site_data, c, MAX_Y, list_win, info_win, arg, ret>>

\* lines 201-203: redraw both windows; an exception leaves main.  The list
\* window is cleared (line 118) before names[offset] is evaluated.
Render ==
    /\ pc = "render"
    /\ IF populateListWinRaises(artists, offset)
       THEN /\ pc' = "raised"
            /\ err' = Raised("IndexError", 123)
            /\ list_win' = {}
            /\ UNCHANGED info_win
       ELSE LET name == PyIndex(artists, offset)
                e == populateInfoWinRaises(concerts[name], SUB_Y)
            IN  /\ list_win' = populateListWin(artists, offset,
                                               LIST_MID, SUB_X)
                /\ info_win' = populateInfoWin(concerts[name], name, SUB_Y)
                /\ IF e # NoError
                   THEN pc' = "raised" /\ err' = e
                   ELSE pc' = "getch" /\ UNCHANGED err
    /\ UNCHANGED <<site_data, concerts, artists, offset, c, MAX_Y, arg, ret>>

\* lines 204-219: read one key, quit or move the selection
Key(k) ==
    /\ pc = "getch"
    /\ c' = k
    /\ IF k \in QuitKeys
       THEN /\ pc' = "quit"
            /\ UNCHANGED offset
       ELSE /\ offset' = SafetyReset(Navigate(k, offset, Len(artists),
                                              SUB_Y - (2 * MARGIN)),
                                     Len(artists))
            /\ pc' = "render"
    /\ UNCHANGED <<site_data, concerts, artists, err, MAX_Y, list_win,
                   info_win, arg, ret>>

(***************************************************************************)
(* The pages the model is run on.                                          *)
(***************************************************************************)
\* one table row of the calendar, with the five fields where the patterns
\* look for them
Row(name, day, date, venue, cost) ==
    <<"<", "t", "d", " ", ">", "<", "b", ">">> \o name
    \o <<"<", "/", "b", ">", "<", "a", " ", "-", "1", "\"", ">">> \o day
    \o <<"<", "/", "a", ">", "<", "a", " ", "0", "\"", ">">> \o date
    \o <<"<", "/", "a", ">", "<", "a", " ", "2", "\"", ">">> \o venue
    \o <<"<", "/", "a", ">", "<", "a", " ", "3", "\"", ">">> \o cost
    \o <<"<", "/", "a", ">">>

rowA ==
    Row(<<"A">>, <<"M", "o", "n">>,
        <<"0", "1", "-", "1", "5", "-", "2", "0", "2", "4">>,
        <<"H", "a", "l", "l">>, <<"$", "1", "0">>)

rowB ==
    Row(<<"B">>, <<"S", "u", "n">>,
        <<"1", "2", "-", "3", "1", "-", "2", "0", "2", "3">>,
        <<"A", "r", "e", "n", "a">>, <<"F", "r", "e", "e">>)

\* month 13, blank venue and cost
rowA13 ==
    Row(<<"A">>, <<"T", "u", "e">>,
        <<"1", "3", "-", "0", "2", "-", "2", "0", "2", "4">>,
        <<>>, <<>>)

rowC ==
    Row(<<"C">>, <<"W", "e", "d">>,
        <<"0", "2", "-", "2", "9", "-", "2", "0", "2", "4">>,
        <<"C", "l", "u", "b">>, <<"$", "5">>)

\* a lower-case name sorts after the upper-case ones
rowLower ==
    Row(<<"b">>, <<"T", "h", "u">>,
        <<"0", "0", "-", "0", "7", "-", "2", "0", "2", "5">>,
        <<"B", "a", "r">>, <<>>)

\* the day cell holds more than 3 letters: day_re does not match
rowLongDay ==
    Row(<<"X">>, <<"M", "o", "n", "d", "a", "y">>,
        <<"0", "1", "-", "1", "5", "-", "2", "0", "2", "4">>,
        <<"H", "a", "l", "l">>, <<"$", "1", "0">>)

\* 10 dashes match date_re: month, day and year are all empty
rowDashes ==
    Row(<<"Y">>, <<"F", "r", "i">>,
        <<"-", "-", "-", "-", "-", "-", "-", "-", "-", "-">>,
        <<"P", "u", "b">>, <<"$", "1">>)

\* 10 digits match date_re: the date has no second and third part
rowDigits ==
    Row(<<"Z">>, <<"S", "a", "t">>,
        <<"0", "1", "2", "3", "4", "5", "6", "7", "8", "9">>,
        <<"P", "u", "b">>, <<"$", "1">>)

rowD ==
    Row(<<"D">>, <<"W", "e", "d">>,
        <<"0", "3", "-", "0", "1", "-", "2", "0", "2", "4">>,
        <<"C", "l", "u", "b">>, <<"$", "5">>)

\* a data cell without an artist
rowHeader == <<"<", "t", "d", " ", ">", "C", "o", "n", "c", "e", "r", "t", "s", "<", "/", "t", "d", ">">>

\* an artist outside any data cell
lineNoCell == <<"<", "p", ">", "<", "b", ">", "C", "<", "/", "b", ">", "<", "/", "p", ">">>

LinePool == {rowA, rowB, rowA13, rowLongDay, rowDashes, rowDigits,
             rowHeader, lineNoCell}

SeqsUpTo(S, n) == UNION {[1..k -> S] : k \in 0..n}

\* two lines for artist A and one for artist B
PageAAB == <<rowA, rowA, rowB>>

\* five artists, out of order
PageFive == <<rowLower, rowC, rowB, rowD, rowA>>

Pages == SeqsUpTo(LinePool, MaxLines) \cup {PageAAB, PageFive}

Heights == MinY..MaxY

(***************************************************************************)
(* The program.                                                            *)
(***************************************************************************)
Init ==
    /\ site_data \in Pages
    /\ MAX_Y \in Heights
    /\ concerts = <<>>
    /\ artists = <<>>
    /\ offset = 0
    /\ c = ""
    /\ pc = "start"
    /\ err = NoError
    /\ list_win = {}
    /\ info_win = {}
    /\ arg = <<>>
    /\ ret = <<>>

Next ==
    \/ Load
    \/ Render
    \/ \E k \in Keys : Key(k)

Spec == Init /\ [][Next]_vars

\* the user keeps pressing keys and every redraw completes
SpecLive == Spec /\ WF_vars(Render) /\ WF_vars(\E k \in Keys : Key(k))

(***************************************************************************)
(* trimName and getMonth called on their own, on every argument within     *)
(* the bounds.                                                             *)
(***************************************************************************)
Idle ==
    /\ site_data = <<>>
    /\ MAX_Y = MinY
    /\ concerts = <<>>
    /\ artists = <<>>
    /\ offset = 0
    /\ c = ""
    /\ list_win = {}
    /\ info_win = {}

UnchangedMain ==
    UNCHANGED <<site_data, MAX_Y, concerts, artists, offset, c, list_win,
                info_win>>

\* names over a letter and the dot, so that some already end in dots
TrimNames == SeqsUpTo({"a", "."}, MaxNameLen)

\* populateListWin passes width - 7 and width - 11, negative in a narrow
\* window
TrimLengths == (0 - 2)..MaxTrim

InitTrim ==
    /\ Idle
    /\ arg \in [name : TrimNames, length : TrimLengths]
    /\ ret = <<>>
    /\ pc = "call"
    /\ err = NoError

CallTrimName ==
    /\ pc = "call"
    /\ ret' = trimName(arg.name, arg.length)
    /\ pc' = "returned"
    /\ UNCHANGED <<arg, err>>
    /\ UnchangedMain

SpecTrim == InitTrim /\ [][CallTrimName]_vars

\* what the month part of a date token can be: digits, possibly none
MonthTokens == SeqsUpTo(Digits, MaxDigits)

InitMonth ==
    /\ Idle
    /\ arg \in MonthTokens
    /\ ret = <<>>
    /\ pc = "call"
    /\ err = NoError

CallGetMonth ==
    /\ pc = "call"
    /\ IF ValueError(arg)
       THEN /\ pc' = "raised"
            /\ err' = Raised("ValueError", 30)
            /\ UNCHANGED ret
       ELSE /\ ret' = getMonth(arg)
            /\ pc' = "returned"
            /\ UNCHANGED err
    /\ UNCHANGED arg
    /\ UnchangedMain

SpecMonth == InitMonth /\ [][CallGetMonth]_vars

(***************************************************************************)
(* Properties.                                                             *)
(***************************************************************************)
Running == pc \in {"render", "getch"}

\* concertList returned and main went on into the loop
Loaded ==
    \/ pc \in {"render", "getch", "quit"}
    \/ pc = "raised" /\ err.line \notin {37, 75, 76, 77, 78}

UpKeys == {"KEY_UP", "k"}

DownKeys == {"KEY_DOWN", "j"}

NavKeys == UpKeys \cup DownKeys \cup {"K", "J"}

Clamp(x, lo, hi) == IF x < lo THEN lo ELSE IF x > hi THEN hi ELSE x

\* the step of each navigation key, one page being SUB_Y - 2 * MARGIN
Delta(k) ==
    IF k \in UpKeys THEN 0 - 1
    ELSE IF k \in DownKeys THEN 1
    ELSE IF k = "K" THEN 0 - (SUB_Y - (2 * MARGIN))
    ELSE IF k = "J" THEN SUB_Y - (2 * MARGIN)
    ELSE 0

Shows(win, y, x, text, attr) ==
    [y |-> y, x |-> x, text |-> text, attr |-> attr] \in win

\* C1: with a non-empty artist list, the selected index is within
\* [0, n-1] whenever the loop is about to redraw or has redrawn, after any
\* sequence of keys.
C1_IndexInRange ==
    (Running /\ Len(artists) >= 1) => offset \in 0..(Len(artists) - 1)

\* a page-down on the tallest terminal, reset to the last of five artists
C1_Witness ==
    /\ pc = "render"
    /\ c = "J"
    /\ MAX_Y = MaxY
    /\ Len(artists) = 5
    /\ offset = 4

\* C2: with an empty catalog the loop never leaves by an exception: once
\* concertList has returned no artist, main is never ended by a raise.
C2_EmptyCatalogRenders ==
    (Loaded /\ artists = <<>>) => pc # "raised"

\* C3: one loop iteration on a navigation key takes a valid index i to
\* clamp(i + delta, 0, n-1), with no wraparound.
C3_MoveClamps ==
    [][(/\ pc = "getch"
        /\ pc' = "render"
        /\ c' \in NavKeys
        /\ offset \in 0..(Len(artists) - 1))
       => offset' = Clamp(offset + Delta(c'), 0, Len(artists) - 1)]_vars

\* a page-down of 3 from the first of five artists lands inside the list
C3_Witness ==
    /\ pc = "render"
    /\ c = "J"
    /\ SUB_Y - (2 * MARGIN) = 3
    /\ Len(artists) = 5
    /\ offset = 3

\* C4: if from some point on only single-step up keys are read and the loop
\* keeps running, the index reaches 0 and stays there; if only single-step
\* down keys, it reaches n-1 and stays there.
C4_Converges ==
    /\ <>[](Running /\ c \in UpKeys) => <>[](offset = 0)
    /\ <>[](Running /\ c \in DownKeys) => <>[](offset = Len(artists) - 1)

\* the last of five artists, reached by a single step down
C4_Witness ==
    /\ pc = "getch"
    /\ c = "j"
    /\ Len(artists) = 5
    /\ offset = 4

\* C5: the loop starts in Running with index 0, leaves Running only on a
\* quit key, takes no step after Quit, keeps the index on any other key,
\* and never changes the catalog or the sorted list.
C5_LoopStates ==
    [][/\ (pc = "start" /\ pc' \in {"render", "getch"})
          => (pc' = "render" /\ offset' = 0)
       /\ (Running /\ pc' \notin {"render", "getch"})
          => (pc' = "quit" /\ c' \in QuitKeys)
       /\ pc # "quit"
       /\ (pc = "getch" /\ c' \notin QuitKeys \cup NavKeys)
          => (pc' = "render" /\ offset' = offset)
       /\ pc # "start" => (concerts' = concerts /\ artists' = artists)]_vars

\* C6 as stated: a name longer than length comes back with exactly length
\* characters, ending in three dots; any other name comes back unchanged.
C6_TrimToLength ==
    pc = "returned" =>
        IF Len(arg.name) > arg.length
        THEN /\ Len(ret) = arg.length
             /\ Len(ret) >= 3
             /\ SubSeq(ret, Len(ret) - 2, Len(ret)) = Ellipsis
        ELSE ret = arg.name

\* C6, amended: a name longer than length comes back as its first length
\* characters (for a negative length, all but its last -length characters)
\* followed by three dots, so with length + 3 characters when length >= 0;
\* any other name comes back unchanged.
C6_TrimPlusEllipsis ==
    pc = "returned" =>
        IF Len(arg.name) > arg.length
        THEN LET kept == IF arg.length >= 0 THEN arg.length
                         ELSE Max(Len(arg.name) + arg.length, 0)
             IN  /\ Len(ret) = kept + 3
                 /\ \A i \in 1..kept : ret[i] = arg.name[i]
                 /\ \A i \in (kept + 1)..(kept + 3) : ret[i] = "."
        ELSE ret = arg.name

\* a four-character name trimmed to 2 comes back with 5 characters
C6_Witness ==
    /\ pc = "returned"
    /\ arg.name = <<"a", ".", "a", "a">>
    /\ arg.length = 2
    /\ ret = <<"a", ".", ".", ".", ".">>

\* C7: every concert of the catalog has a non-empty venue, weekday,
\* day-of-month and year, and a month that normalises into 1..12.
C7_FieldsNonEmpty ==
    Loaded =>
        \A name \in DOMAIN concerts : \A k \in 1..Len(concerts[name]) :
            LET cn == concerts[name][k]
            IN  /\ cn.venue # <<>>
                /\ cn.day # <<>>
                /\ cn.date # <<>>
                /\ cn.year # <<>>
                /\ ~ValueError(cn.month)
                /\ MonthIndex(cn.month) + 1 \in 1..12

NameA == <<"A">>

NameB == <<"B">>

\* the rest of the end-to-end example, for a catalog with nA concerts of A
EndToEnd(nA) ==
    (Loaded /\ site_data = PageAAB) =>
        /\ Cardinality(DOMAIN concerts) = 2
        /\ NameA \in DOMAIN concerts
        /\ Len(concerts[NameA]) = nA
        /\ \A k \in 1..Len(concerts[NameA]) :
              /\ ~ValueError(concerts[NameA][k].month)
              /\ IntOf(concerts[NameA][k].month) = 1
              /\ concerts[NameA][k].date = <<"1", "5">>
              /\ concerts[NameA][k].year = <<"2", "0", "2", "4">>
        /\ artists = <<NameA, NameB>>
        /\ (pc = "getch" /\ offset = 1) =>
              /\ Shows(info_win, 2, 2, NameB, "A_UNDERLINE")
              /\ Shows(info_win, 4, 4, <<"A", "r", "e", "n", "a">>, "A_BOLD")
              /\ Shows(info_win, 6, 8, <<"F", "r", "e", "e">>, "A_NORMAL")
              /\ Cardinality(info_win) = 4

\* C8 as stated: on the page with two lines for A and one for B, the catalog
\* has 2 keys, A has 1 concert with month 1, day 15, year 2024, the sorted
\* order is A, B, and index 1 displays B with venue Arena and cost Free.
C8_OneConcertForA == EndToEnd(1)

\* C8, amended: as stated, but A has 2 concerts, one per line, each with
\* month 1, day 15 and year 2024.
C8_TwoConcertsForA == EndToEnd(2)

\* B selected and displayed on the page of the example
C8_Witness ==
    /\ site_data = PageAAB
    /\ pc = "getch"
    /\ offset = 1
    /\ c = "j"

\* every non-empty digit string within the bound
ParsedMonths == {n \in MonthTokens : ~ValueError(n)}

\* C9: getMonth has period 12 on the parsed months, returns the m-th name
\* for m in 1..12, and getMonth(13) = getMonth(1) = January.
C9_Periodic ==
    pc = "returned" =>
        /\ \A n \in ParsedMonths :
              (IntOf(n) - IntOf(arg)) % 12 = 0 => getMonth(n) = ret
        /\ IntOf(arg) \in 1..12 => ret = months[IntOf(arg)]
        /\ IntOf(arg) \in {1, 13} => ret = <<"J", "a", "n", "u", "a", "r", "y">>

\* month 13 named January
C9_Witness ==
    /\ pc = "returned"
    /\ arg = <<"1", "3">>
    /\ ret = <<"J", "a", "n", "u", "a", "r", "y">>

\* the data-cell lines on which the artist pattern matches, in page order
ArtistLines ==
    SelectSeq(site_data,
              LAMBDA l : Contains(l, artist_tag) /\ artist_re(l).found)

\* the concert a line describes, read field by field
ConcertOf(l) ==
    LET parts == Split(date_re(l).group, "-")
    IN  [venue |-> venue_re(l).group, year |-> parts[3], month |-> parts[1],
         date |-> parts[2], day |-> day_re(l).group, cost |-> cost_re(l).group]

=============================================================================
